---- MODULE Spec2Model ----
(***************************************************************************)
(* Orchestration core of Auto Cursor: the event bus (EventBus), the        *)
(* project store (MemoryStore), the agent registry (AgentManager), the     *)
(* workflow engine (AutoFlow), the orchestrator and the listeners of the   *)
(* shipped worker agents.                                                  *)
(*                                                                         *)
(* EventEmitter3 dispatches synchronously and re-entrantly, so one call of *)
(* emit runs every listener, and every emit those listeners issue, before  *)
(* it returns.  The operators below therefore transform a record of the    *)
(* mutable state (the "world") and an action commits the world a whole     *)
(* call leaves behind.  An async listener runs synchronously up to its     *)
(* first await that really suspends; the rest is a later step.             *)
(***************************************************************************)
EXTENDS Integers, Sequences, FiniteSets, TLC

\* ------------------------------------------------------------------ bounds
\* EventBus.maxHistorySize is 1000 in the source; the model keeps the same
\* eviction code with a capacity small enough for eviction to happen.
maxHistorySize == 3
\* Date.now() takes the values 1..MaxClock
MaxClock == 2
\* projects created in one run (uuid v4 ids are modelled as 1..MaxProjects)
MaxProjects == 2
\* calls made from outside the core in one run
MaxCalls == 4
\* purpose selections handled by the orchestrator in one run
MaxTeams == 1
\* LeadAgent instances constructed in one run
MaxLeadAgents == 1
\* worker executions in flight at the same time
MaxPending == 2
\* entries of a conversation beyond which the user stops chatting
MaxConversation == 6
\* handlers clients give to the bus in one run
MaxSubscribers == 3
MaxAgents == 3
MaxExecutions == 2

\* ------------------------------------------------------------- vocabulary
Undef == "undef"          \* JavaScript undefined
NoProject == 0            \* currentProjectId === null

EmptyFn == [x \in {} |-> Undef]

\* value of an optional field of a JavaScript object
Get(obj, field) == IF field \in DOMAIN obj THEN obj[field] ELSE Undef

PhaseStart == [requirements |-> "phase.requirements.start",
               architecture |-> "phase.architecture.start",
               development |-> "phase.development.start",
               testing |-> "phase.testing.start",
               devops |-> "phase.devops.start",
               documentation |-> "phase.documentation.start"]

PhaseComplete == [requirements |-> "phase.requirements.complete",
                  architecture |-> "phase.architecture.complete",
                  development |-> "phase.development.complete",
                  testing |-> "phase.testing.complete",
                  devops |-> "phase.devops.complete",
                  documentation |-> "phase.documentation.complete"]

PhaseNames == DOMAIN PhaseStart

StartEvents == {PhaseStart[p] : p \in PhaseNames}
CompleteEvents == {PhaseComplete[p] : p \in PhaseNames}

EventType == StartEvents \cup CompleteEvents \cup
             {"system.init", "system.error", "purpose.selected", "project.realign",
              "agent.created", "agent.started", "agent.completed", "agent.failed",
              "user.message"}

\* the phase a start- or complete-event of the EventType enum belongs to
PhaseOfEvent(ev) == CHOOSE p \in PhaseNames : PhaseStart[p] = ev \/ PhaseComplete[p] = ev

defaultWorkflow ==
  << [name |-> "requirements", agentRoles |-> <<"requirements">>,
      startEvent |-> PhaseStart.requirements, completeEvent |-> PhaseComplete.requirements,
      nextPhase |-> "architecture"],
     [name |-> "architecture", agentRoles |-> <<"architect">>,
      startEvent |-> PhaseStart.architecture, completeEvent |-> PhaseComplete.architecture,
      nextPhase |-> "development"],
     [name |-> "development", agentRoles |-> <<"backend", "frontend", "mobile", "game">>,
      startEvent |-> PhaseStart.development, completeEvent |-> PhaseComplete.development,
      nextPhase |-> "testing", isParallel |-> TRUE],
     [name |-> "testing", agentRoles |-> <<"tester">>,
      startEvent |-> PhaseStart.testing, completeEvent |-> PhaseComplete.testing,
      nextPhase |-> "devops"],
     [name |-> "devops", agentRoles |-> <<"devops">>,
      startEvent |-> PhaseStart.devops, completeEvent |-> PhaseComplete.devops,
      nextPhase |-> "documentation"],
     [name |-> "documentation", agentRoles |-> <<"docs">>,
      startEvent |-> PhaseStart.documentation, completeEvent |-> PhaseComplete.documentation] >>

\* Custom workflows given to registerWorkflow.  The first is the one of the
\* README (new phase names on the events of the enum), the second reuses
\* default phase names on a shorter chain.
readmeWorkflow ==
  << [name |-> "analysis", agentRoles |-> <<"requirements">>,
      startEvent |-> PhaseStart.requirements, completeEvent |-> PhaseComplete.requirements,
      nextPhase |-> "design"],
     [name |-> "design", agentRoles |-> <<"architect">>,
      startEvent |-> PhaseStart.architecture, completeEvent |-> PhaseComplete.architecture] >>

shortWorkflow ==
  << [name |-> "architecture", agentRoles |-> <<"architect">>,
      startEvent |-> PhaseStart.architecture, completeEvent |-> PhaseComplete.architecture,
      nextPhase |-> "testing"],
     [name |-> "testing", agentRoles |-> <<"tester">>,
      startEvent |-> PhaseStart.testing, completeEvent |-> PhaseComplete.testing] >>

CustomWorkflows == {readmeWorkflow, shortWorkflow}

\* purposes of the registry used as inputs, with their agentRoles
purposeRegistry ==
  [apiMicroservices |-> <<"requirements", "architect", "backend", "tester", "devops",
                          "docs", "summarizer">>,
   gameDevelopment |-> <<"requirements", "architect", "game", "tester", "docs",
                         "summarizer">>]

PurposeIds == DOMAIN purposeRegistry

\* a purpose a client adds with purposeRegistry.register: its agentRoles may
\* name any AgentRole, the lead included
customPurposes == [customTeam |-> <<"lead", "backend", "frontend">>]

\* the registry after the client's register calls
registeredPurposes == purposeRegistry @@ customPurposes

\* the members of the AgentRole enum
AllRoles == {"lead", "requirements", "architect", "backend", "frontend", "mobile",
             "game", "tester", "devops", "docs", "summarizer"}

\* result payloads an external publisher attaches to a complete-event
Results == {Undef, "r1"}

\* channels the clients of the bus subscribe to and publish on: one without
\* and one with a listener of the core
BusChannels == {"user.message", "purpose.selected"}

\* what the handlers given by clients do
HandlerKinds == {"probe", "republisher", "thrower"}

\* the timeout arguments of waitFor, in milliseconds
Timeouts == {0, 50}

\* a Date object and the string JSON.stringify writes for it
DateValue == "Date"
IsoString == "2026-01-01T00:00:00.000Z"

\* values of type any given to the store as artifact, metadata or result
AnyValues == {Undef, "doc", DateValue}

\* partial phase records given to updatePhase
PhasePartials ==
  {[status |-> "in_progress", startedAt |-> 1],
   [status |-> "completed", completedAt |-> 2, result |-> Undef],
   [result |-> "doc"],
   [result |-> DateValue, notes |-> <<"note">>]}

\* phase names given to updatePhase
UpsertNames == {"requirements", "design"}

\* outcomes of a call's file operations
IOOutcomes == {"ok", "fail"}

VARIABLES
  eventHistory,      \* EventBus.eventHistory
  listeners,         \* EventBus.emitter: event -> listeners in subscription order
  emitCount,         \* number of emit calls since the last clearHistory
  calls,             \* number of calls made from outside the core
  projects,          \* MemoryStore.projects: id -> ProjectContext
  currentProjectId,  \* MemoryStore.currentProjectId
  created,           \* number of projects created (the next id)
  workflows,         \* AutoFlow.workflows
  currentPhase,      \* AutoFlow.currentPhase
  isRunning,         \* AutoFlow.isRunning
  agents,            \* AgentManager.agents, in creation order
  teams,             \* number of purpose selections handled
  leadAgents,        \* number of LeadAgent instances constructed
  pending,           \* worker executions in flight, in the order they began
  timers,            \* pending setTimeout(() => autoFlow.startWorkflow(), 1000)
  now,               \* Date.now()
  invocations,       \* calls of the subscribed test handlers, in the order they began
  thrown,            \* the last call raised to its caller
  subscribers,       \* the handlers clients gave to on, once and waitFor, in call order
  disk,              \* the files <persistencePath>/<id>.json: id -> JSON text
  io,                \* whether the file operations of the last call succeeded
  minted,            \* number of agent ids uuidv4 has produced
  agentsByRole,      \* AgentManager.agentsByRole: role -> agent ids, in creation order
  executions,        \* executeAgent calls awaiting agent.execute, in the order they began
  initialized        \* AutoCursor.initialized

vars == <<eventHistory, listeners, emitCount, calls, projects, currentProjectId,
          created, workflows, currentPhase, isRunning, agents, teams, leadAgents,
          pending, timers, now, invocations, thrown, subscribers, disk, io,
          minted, agentsByRole, executions, initialized>>

\* the state only the bus harness and the store's files hold
others == <<invocations, thrown, subscribers, disk, io,
            minted, agentsByRole, executions, initialized>>

\* The state a synchronous call chain works on.
World == [hist |-> eventHistory, lis |-> listeners, count |-> emitCount,
          projs |-> projects, cur |-> currentProjectId,
          phase |-> currentPhase, running |-> isRunning, agents |-> agents,
          pending |-> pending, log |-> invocations, thrown |-> FALSE,
          subs |-> subscribers, disk |-> disk, io |-> "ok",
          minted |-> minted, byRole |-> agentsByRole, execs |-> executions,
          initialized |-> initialized]

\* the same with the outcome o of the call's file operations
WorldIO(o) == [World EXCEPT !.io = o]

Commit(w) ==
  /\ eventHistory' = w.hist
  /\ listeners' = w.lis
  /\ emitCount' = w.count
  /\ projects' = w.projs
  /\ currentProjectId' = w.cur
  /\ currentPhase' = w.phase
  /\ isRunning' = w.running
  /\ agents' = w.agents
  /\ pending' = w.pending
  /\ invocations' = w.log
  /\ thrown' = w.thrown
  /\ subscribers' = w.subs
  /\ disk' = w.disk
  /\ io' = w.io
  /\ minted' = w.minted
  /\ agentsByRole' = w.byRole
  /\ executions' = w.execs
  /\ initialized' = w.initialized

\* ------------------------------------------------------------ MemoryStore
\* JSON.stringify of a value of type any: a Date becomes its ISO string
jsonValue(v) == IF v = DateValue THEN IsoString ELSE v

\* JSON.stringify of an object whose fields anyFields may hold undefined: a
\* property whose value is undefined is left out
jsonObject(obj, anyFields) ==
  [f \in {g \in DOMAIN obj : ~(g \in anyFields /\ obj[g] = Undef)} |->
     IF f \in anyFields THEN jsonValue(obj[f]) ELSE obj[f]]

\* JSON.stringify of a Record<string, any>
jsonRecord(rec) ==
  [k \in {j \in DOMAIN rec : rec[j] # Undef} |-> jsonValue(rec[k])]

\* JSON.stringify(project, null, 2); the text is represented by the value it
\* denotes
stringify(project) ==
  [project EXCEPT
     !.phases = [n \in DOMAIN project.phases |->
                   jsonObject(project.phases[n], {"result", "artifacts"})],
     !.artifacts = jsonRecord(project.artifacts),
     !.metadata = jsonRecord(project.metadata),
     !.conversationHistory =
        [k \in 1..Len(project.conversationHistory) |->
           jsonObject(project.conversationHistory[k], {"metadata"})]]

\* JSON.parse of a text written by stringify
parse(text) == text

\* a write whose failure loses the file
persist_losesFile(w, projectId) ==
  IF projectId \notin DOMAIN w.projs THEN w
  ELSE IF w.io = "fail"
  THEN [w EXCEPT !.disk = [y \in DOMAIN w.disk \ {projectId} |-> w.disk[y]]]
  ELSE [w EXCEPT !.disk = (projectId :> stringify(w.projs[projectId])) @@ w.disk]

\* persist: write the project's file; a failure is caught and logged
persist(w, projectId) ==
  IF projectId \notin DOMAIN w.projs THEN w
  ELSE IF w.io = "fail" THEN w
  ELSE [w EXCEPT !.disk = (projectId :> stringify(w.projs[projectId])) @@ w.disk]

\* createProject: the new context becomes the current project
createProject(w, id, purposeId) ==
  LET w1 == [w EXCEPT !.projs = (id :> [id |-> id, purposeId |-> purposeId,
                                        status |-> "initializing", updatedAt |-> now,
                                        phases |-> EmptyFn, artifacts |-> EmptyFn,
                                        conversationHistory |-> <<>>,
                                        metadata |-> EmptyFn]) @@ w.projs,
                      !.cur = id]
  IN persist(w1, id)

\* getCurrentProject: the id of the current project, or NoProject (null)
getCurrentProject(w) ==
  IF w.cur = NoProject THEN NoProject
  ELSE IF w.cur \in DOMAIN w.projs THEN w.cur ELSE NoProject

\* a status update that creates the context it does not find
updateProjectStatus_creates(w, projectId, status) ==
  IF projectId \in DOMAIN w.projs
  THEN persist([w EXCEPT !.projs[projectId].status = status,
                         !.projs[projectId].updatedAt = now], projectId)
  ELSE persist([w EXCEPT !.projs = (projectId :>
                                      [id |-> projectId, purposeId |-> Undef,
                                       status |-> status, updatedAt |-> now,
                                       phases |-> EmptyFn, artifacts |-> EmptyFn,
                                       conversationHistory |-> <<>>,
                                       metadata |-> EmptyFn]) @@ w.projs],
               projectId)

updateProjectStatus(w, projectId, status) ==
  IF projectId \in DOMAIN w.projs
  THEN persist([w EXCEPT !.projs[projectId].status = status,
                         !.projs[projectId].updatedAt = now], projectId)
  ELSE w

\* a merge that lets the fields of the record win over those of phaseData
updatePhase_keepsOld(w, projectId, phaseName, phaseData) ==
  IF projectId \in DOMAIN w.projs
  THEN LET old == w.projs[projectId].phases
           base == IF phaseName \in DOMAIN old
                   THEN old[phaseName]
                   ELSE [name |-> phaseName, status |-> "pending", notes |-> <<>>]
           merged == base @@ phaseData
       IN persist([w EXCEPT !.projs[projectId].phases = (phaseName :> merged) @@ old,
                            !.projs[projectId].updatedAt = now], projectId)
  ELSE w

\* updatePhase: phaseData is a partial PhaseData; its fields overwrite those of
\* the record, which is first created as pending when it does not exist
updatePhase(w, projectId, phaseName, phaseData) ==
  IF projectId \in DOMAIN w.projs
  THEN LET old == w.projs[projectId].phases
           base == IF phaseName \in DOMAIN old
                   THEN old[phaseName]
                   ELSE [name |-> phaseName, status |-> "pending", notes |-> <<>>]
           merged == phaseData @@ base
       IN persist([w EXCEPT !.projs[projectId].phases = (phaseName :> merged) @@ old,
                            !.projs[projectId].updatedAt = now], projectId)
  ELSE w

storeArtifact(w, projectId, artifactKey, artifactData) ==
  IF projectId \in DOMAIN w.projs
  THEN persist([w EXCEPT !.projs[projectId].artifacts =
                             (artifactKey :> artifactData) @@ w.projs[projectId].artifacts,
                         !.projs[projectId].updatedAt = now], projectId)
  ELSE w

\* addConversation called without metadata: the entry's metadata is undefined
addConversation(w, projectId, role, message) ==
  IF projectId \in DOMAIN w.projs
  THEN persist([w EXCEPT !.projs[projectId].conversationHistory =
                             Append(@, [timestamp |-> now, role |-> role,
                                        message |-> message, metadata |-> Undef]),
                         !.projs[projectId].updatedAt = now], projectId)
  ELSE w

\* a metadata write that is kept in memory only
updateMetadata_unsaved(w, projectId, key, value) ==
  IF projectId \in DOMAIN w.projs
  THEN [w EXCEPT !.projs[projectId].metadata =
                     (key :> value) @@ w.projs[projectId].metadata,
                 !.projs[projectId].updatedAt = now]
  ELSE w

updateMetadata(w, projectId, key, value) ==
  IF projectId \in DOMAIN w.projs
  THEN persist([w EXCEPT !.projs[projectId].metadata =
                             (key :> value) @@ w.projs[projectId].metadata,
                         !.projs[projectId].updatedAt = now], projectId)
  ELSE w

\* a function without the argument x
Without(f, x) == [y \in DOMAIN f \ {x} |-> f[y]]

\* deletePersisted: unlink the project's file; a failure is caught and logged
deletePersisted(w, projectId) ==
  IF w.io = "fail" THEN w ELSE [w EXCEPT !.disk = Without(@, projectId)]

\* a deletion that leaves the file
deleteProject_keepsFile(w, projectId) ==
  [w EXCEPT !.projs = Without(@, projectId),
            !.cur = IF @ = projectId THEN NoProject ELSE @]

\* a delete that leaves the pointer on the deleted project
deleteProject_keepsPointer(w, projectId) ==
  deletePersisted([w EXCEPT !.projs = Without(@, projectId)], projectId)

deleteProject(w, projectId) ==
  deletePersisted([w EXCEPT !.projs = Without(@, projectId),
                            !.cur = IF @ = projectId THEN NoProject ELSE @],
                  projectId)

setCurrentProject(w, projectId) ==
  IF projectId \in DOMAIN w.projs THEN [w EXCEPT !.cur = projectId] ELSE w

\* a load that leaves the context in memory as it is
loadProject_skips(w, projectId) == w

\* loadProject: the parsed file replaces the context in memory; a failure is
\* caught and logged
loadProject(w, projectId) ==
  IF w.io = "fail" THEN w
  ELSE IF projectId \in DOMAIN w.disk
       THEN [w EXCEPT !.projs = (projectId :> parse(w.disk[projectId])) @@ w.projs]
       ELSE w

\* loadAllProjects: loadProject for every file of the directory
RECURSIVE loadEach(_, _)
loadEach(w, ids) ==
  IF ids = {} THEN w
  ELSE LET id == CHOOSE x \in ids : \A y \in ids : x <= y
       IN loadEach(loadProject(w, id), ids \ {id})

loadAllProjects(w) ==
  IF w.io = "fail" THEN w ELSE loadEach(w, DOMAIN w.disk)

\* --------------------------------------------------------------- EventBus
\* an eviction that drops the newest entry instead of the oldest
addToHistory_dropsNewest(w, event, payload) ==
  LET pushed == Append(w.hist, [event |-> event, payload |-> payload,
                                seq |-> w.count + 1])
  IN [w EXCEPT !.hist = IF Len(pushed) > maxHistorySize
                        THEN SubSeq(pushed, 1, maxHistorySize)
                        ELSE pushed,
               !.count = w.count + 1]

\* addToHistory: push, then drop the oldest entry when over capacity.  seq is
\* the identity of the emitted event: its number since the last clearHistory.
addToHistory(w, event, payload) ==
  LET pushed == Append(w.hist, [event |-> event, payload |-> payload,
                                seq |-> w.count + 1])
  IN [w EXCEPT !.hist = IF Len(pushed) > maxHistorySize THEN Tail(pushed) ELSE pushed,
               !.count = w.count + 1]

RECURSIVE emit(_, _, _)

\* ---------------------------------------------------------------- AutoFlow
\* the statusMap of proceedToNextPhase, with its fallback
statusMap(phaseName) ==
  IF phaseName \in PhaseNames THEN phaseName ELSE "development"

IndexOfPhase(workflow, phaseName) ==
  IF \E i \in 1..Len(workflow) : workflow[i].name = phaseName
  THEN CHOOSE i \in 1..Len(workflow) :
         /\ workflow[i].name = phaseName
         /\ \A j \in 1..(i - 1) : workflow[j].name # phaseName
  ELSE 0

\* startWorkflow, with its two throwing exits
startWorkflow(w, workflowName) ==
  IF workflowName \notin DOMAIN workflows
  THEN [w EXCEPT !.thrown = TRUE]          \* throw: workflow not found
  ELSE LET w1 == [w EXCEPT !.running = TRUE]
           project == getCurrentProject(w1)
       IN IF project = NoProject
          THEN [w1 EXCEPT !.thrown = TRUE] \* throw: no active project
          ELSE LET firstPhase == workflows[workflowName][1]
                   w2 == [w1 EXCEPT !.phase = firstPhase.name]
                   w3 == updateProjectStatus(w2, project, "requirements")
                   w4 == updatePhase(w3, project, firstPhase.name,
                                     [name |-> firstPhase.name, status |-> "in_progress",
                                      startedAt |-> now])
               IN emit(w4, firstPhase.startEvent,
                       [timestamp |-> now, phase |-> firstPhase.name,
                        source |-> "AutoFlow"])

\* proceedToNextPhase, the branch of a phase without nextPhase: workflow complete
finishWorkflow_keepsStatus(w) == [w EXCEPT !.running = FALSE]

finishWorkflow(w) ==
  LET w1 == [w EXCEPT !.running = FALSE]
      project == getCurrentProject(w1)
  IN IF project # NoProject
     THEN updateProjectStatus(w1, project, "completed")
     ELSE w1

\* proceedToNextPhase, the branch of a phase with a nextPhase found in the workflow
\* a transition that publishes the start-event before it updates the store
enterNextPhase_emitsFirst(w, nextPhase) ==
  LET nextPhaseName == nextPhase.name
      w1 == emit([w EXCEPT !.phase = nextPhaseName], nextPhase.startEvent,
                 [timestamp |-> now, phase |-> nextPhaseName, source |-> "AutoFlow"])
      project == getCurrentProject(w1)
  IN IF project # NoProject
     THEN updatePhase(updateProjectStatus(w1, project, statusMap(nextPhaseName)),
                      project, nextPhaseName,
                      [name |-> nextPhaseName, status |-> "in_progress",
                       startedAt |-> now])
     ELSE w1

enterNextPhase(w, nextPhase) ==
  LET nextPhaseName == nextPhase.name
      w1 == [w EXCEPT !.phase = nextPhaseName]
      project == getCurrentProject(w1)
      w2 == IF project # NoProject
            THEN updatePhase(updateProjectStatus(w1, project, statusMap(nextPhaseName)),
                             project, nextPhaseName,
                             [name |-> nextPhaseName, status |-> "in_progress",
                              startedAt |-> now])
            ELSE w1
  IN emit(w2, nextPhase.startEvent,
          [timestamp |-> now, phase |-> nextPhaseName, source |-> "AutoFlow"])

\* proceedToNextPhase always reads the workflow registered as 'default'
proceedToNextPhase(w, currentPhaseName) ==
  IF "default" \notin DOMAIN workflows THEN w
  ELSE LET workflow == workflows["default"]
           currentPhaseIndex == IndexOfPhase(workflow, currentPhaseName)
       IN IF currentPhaseIndex = 0 THEN w
          ELSE LET nextPhaseName == Get(workflow[currentPhaseIndex], "nextPhase")
               IN IF nextPhaseName = Undef
                  THEN finishWorkflow(w)
                  ELSE LET nextIndex == IndexOfPhase(workflow, nextPhaseName)
                       IN IF nextIndex = 0 THEN w
                          ELSE enterNextPhase(w, workflow[nextIndex])

\* a listener that forgets the payload's result and artifacts
onPhaseComplete_dropsResult(w, phaseName, payload) ==
  LET project == getCurrentProject(w)
      w1 == IF project # NoProject
            THEN updatePhase(w, project, phaseName,
                             [name |-> phaseName, status |-> "completed",
                              completedAt |-> now,
                              result |-> Undef, artifacts |-> Undef])
            ELSE w
  IN proceedToNextPhase(w1, phaseName)

\* the listener setupEventListeners registers for the complete-event of phaseName
onPhaseComplete(w, phaseName, payload) ==
  LET project == getCurrentProject(w)
      w1 == IF project # NoProject
            THEN updatePhase(w, project, phaseName,
                             [name |-> phaseName, status |-> "completed",
                              completedAt |-> now,
                              result |-> Get(payload, "result"),
                              artifacts |-> Get(payload, "artifacts")])
            ELSE w
  IN proceedToNextPhase(w1, phaseName)

\* ------------------------------------------------------------ AgentManager
\* createAgent: track the instance under a new id and under its role, and
\* announce it
createAgent(w, role) ==
  LET agentId == w.minted + 1
      tracked == IF role \in DOMAIN w.byRole THEN w.byRole[role] ELSE <<>>
      w1 == [w EXCEPT !.minted = agentId,
                      !.agents = Append(@, [id |-> agentId, role |-> role,
                                            status |-> "idle"]),
                      !.byRole = (role :> Append(tracked, agentId)) @@ @]
  IN emit(w1, "agent.created",
          [timestamp |-> now, agentId |-> agentId, agentRole |-> role,
           source |-> "AgentManager"])

\* a clear that spares the instances that are working
clearAgents_keepsWorking(w) ==
  [w EXCEPT !.agents = SelectSeq(@, LAMBDA a : a.status = "working"),
            !.byRole = EmptyFn]

clearAgents(w) == [w EXCEPT !.agents = <<>>, !.byRole = EmptyFn]

\* getAgentsByRole: the ids of the role's list, empty when the role has none
getAgentsByRole(w, role) ==
  IF role \in DOMAIN w.byRole THEN w.byRole[role] ELSE <<>>

\* getActiveAgents: the tracked instances that are idle or working
getActiveAgents(w) ==
  SelectSeq(w.agents, LAMBDA a : a.status = "idle" \/ a.status = "working")

\* this.agents.get(agentId): the position of the instance, 0 when there is none
agentIndex(w, agentId) ==
  IF \E i \in 1..Len(w.agents) : w.agents[i].id = agentId
  THEN CHOOSE i \in 1..Len(w.agents) : w.agents[i].id = agentId
  ELSE 0

\* a removal that leaves the role's list as it is
removeAgent_keepsIndex(w, agentId) ==
  [w EXCEPT !.agents = SelectSeq(@, LAMBDA a : a.id # agentId)]

\* removeAgent: take the instance out of its role's list and out of the map
removeAgent(w, agentId) ==
  LET i == agentIndex(w, agentId)
  IN IF i = 0 THEN w
     ELSE LET role == w.agents[i].role
          IN [w EXCEPT !.agents = SelectSeq(@, LAMBDA a : a.id # agentId),
                       !.byRole = IF role \in DOMAIN @
                                  THEN [@ EXCEPT ![role] =
                                          SelectSeq(@, LAMBDA a : a # agentId)]
                                  ELSE @]

\* instance.status = status, on the instance executeAgent looked up: a write
\* the map shows only while it still holds that instance
setStatus(w, agentId, status) ==
  LET i == agentIndex(w, agentId)
  IN IF i = 0 THEN w ELSE [w EXCEPT !.agents[i].status = status]

\* the catch block of executeAgent: mark the instance failed, announce it and
\* raise again
executeFailed(w, agentId, role) ==
  LET w1 == emit(setStatus(w, agentId, "failed"), "agent.failed",
                 [timestamp |-> now, agentId |-> agentId, agentRole |-> role,
                  error |-> "Error", source |-> "AgentManager"])
  IN [w1 EXCEPT !.thrown = TRUE]

\* executeAgent up to its await: an unknown id raises; otherwise the instance
\* is marked working, the start is announced and agent.execute is awaited
executeAgent(w, agentId) ==
  LET i == agentIndex(w, agentId)
  IN IF i = 0 THEN [w EXCEPT !.thrown = TRUE]
     ELSE LET role == w.agents[i].role
              w1 == emit(setStatus(w, agentId, "working"), "agent.started",
                         [timestamp |-> now, agentId |-> agentId,
                          agentRole |-> role, data |-> "input",
                          source |-> "AgentManager"])
          IN IF w1.thrown
             THEN executeFailed([w1 EXCEPT !.thrown = FALSE], agentId, role)
             ELSE [w1 EXCEPT !.execs = Append(@, [agentId |-> agentId,
                                                  role |-> role])]

\* what the awaited agent.execute(input) does: it returns an output with
\* success true, returns an output with success false (as the catch block and
\* the missing-project exit of the workers' execute do), or raises
ExecuteOutcomes == {"success", "errorOutput", "raised"}

\* the AgentOutput of an execute that returned
agentOutput(outcome) == [success |-> outcome = "success"]

\* executeAgent after its await: whatever agent.execute returned marks the
\* instance completed and is announced; what it raised goes to the catch block
executeSettles(w, k, outcome) ==
  LET e == w.execs[k]
      w0 == [w EXCEPT !.execs = SubSeq(@, 1, k - 1) \o SubSeq(@, k + 1, Len(@))]
  IN IF outcome # "raised"
     THEN LET w1 == emit(setStatus(w0, e.agentId, "completed"), "agent.completed",
                         [timestamp |-> now, agentId |-> e.agentId,
                          agentRole |-> e.role, data |-> agentOutput(outcome),
                          source |-> "AgentManager"])
          IN IF w1.thrown
             THEN executeFailed([w1 EXCEPT !.thrown = FALSE], e.agentId, e.role)
             ELSE w1
     ELSE executeFailed(w0, e.agentId, e.role)

\* (counts[key] || 0) + 1
counted(counts, key) ==
  (key :> ((IF key \in DOMAIN counts THEN counts[key] ELSE 0) + 1)) @@ counts

\* a count that leaves the failed instances out
tally_skipsFailed(stats, instance) ==
  [stats EXCEPT !.byRole = counted(@, instance.role),
                !.byStatus = IF instance.status = "failed" THEN @
                             ELSE counted(@, instance.status)]

\* the body of the forEach of getStatistics
tally(stats, instance) ==
  [stats EXCEPT !.byRole = counted(@, instance.role),
                !.byStatus = counted(@, instance.status)]

RECURSIVE tallyFrom(_, _, _)
tallyFrom(stats, instances, i) ==
  IF i > Len(instances) THEN stats
  ELSE tallyFrom(tally(stats, instances[i]), instances, i + 1)

\* getStatistics: total is the size of the map, the counts are tallied over
\* its instances
getStatistics(w) ==
  tallyFrom([total |-> Len(w.agents), byRole |-> EmptyFn, byStatus |-> EmptyFn],
            w.agents, 1)

\* ------------------------------------------------------------ the workers
\* The phase whose start-event the constructor of a role's agent class
\* subscribes to (RequirementsAgent, ArchitectAgent, TesterAgent, DevOpsAgent).
\* BackendAgent, FrontendAgent, MobileAgent, GameAgent and SummarizerAgent
\* subscribe to nothing.
WorkerPhase == [requirements |-> "requirements", architect |-> "architecture",
                tester |-> "testing", devops |-> "devops"]

\* DocsAgent (agents/docs) follows the same contract for the documentation phase
DocsWorkerPhase == [docs |-> "documentation"]

ListeningPhase == WorkerPhase @@ DocsWorkerPhase

\* the key under which the worker of a phase stores its artifact
ArtifactKey == [requirements |-> "requirements", architecture |-> "architecture",
                testing |-> "tests", devops |-> "devops",
                documentation |-> "documentation"]

\* the name the worker of a phase puts in the source of its complete-event
WorkerName == [requirements |-> "RequirementsAgent", architecture |-> "ArchitectAgent",
               testing |-> "TesterAgent", devops |-> "DevOpsAgent",
               documentation |-> "DocsAgent"]

\* A worker's start-event listener up to the await of execute: execute reads
\* the current project and begins its work.
onPhaseStart(w, phaseName) ==
  [w EXCEPT !.pending = Append(@, [phase |-> phaseName,
                                   project |-> getCurrentProject(w),
                                   state |-> "running"])]

\* ------------------------------------------------------------ Orchestrator
\* Orchestrator.createAgent: construct the agent of the role (its constructor
\* subscribes its listener) and register it with the manager
orchestratorCreateAgent(w, role) ==
  IF role = "lead" THEN w
  ELSE LET w1 == IF role \in DOMAIN ListeningPhase
                 THEN [w EXCEPT !.lis[PhaseStart[ListeningPhase[role]]] =
                                   Append(@, [kind |-> "worker",
                                              arg |-> ListeningPhase[role]])]
                 ELSE w
       IN createAgent(w1, role)

RECURSIVE forEachRole(_, _, _)
forEachRole(w, roles, i) ==
  IF i > Len(roles) \/ w.thrown THEN w
  ELSE forEachRole(orchestratorCreateAgent(w, roles[i]), roles, i + 1)

setupAgentsForPurpose(w, purposeId) ==
  IF purposeId \notin DOMAIN registeredPurposes
  THEN [w EXCEPT !.thrown = TRUE]              \* throw: purpose not found
  ELSE forEachRole(w, registeredPurposes[purposeId], 1)

\* --------------------------------------------------------------- LeadAgent
\* the listener LeadAgent.setupEventListeners registers on every complete-event
onPhaseCompleteLead(w, payload) ==
  LET project == getCurrentProject(w)
  IN IF project # NoProject
     THEN addConversation(w, project, "system", <<"completed", payload.phase>>)
     ELSE w

\* ---------------------------------------------------- clients of the bus
\* Handlers given to the bus by its clients.  A probe only records that it was
\* called; a republisher also emits once more on the channel it is called on
\* (unless the event is that emit of its own); a thrower raises.
recordCall(w, h, event, seq, payload) ==
  [w EXCEPT !.log = Append(@, [handler |-> h, event |-> event, seq |-> seq,
                               payload |-> payload,
                               stored |-> \E k \in 1..Len(w.hist) :
                                            /\ w.hist[k].seq = seq
                                            /\ w.hist[k].event = event])]

\* a handler that, when called, reads the store and the history of the bus
observe(w, h, event, seq, payload) ==
  LET w1 == recordCall(w, h, event, seq, payload)
  IN [w1 EXCEPT !.log[Len(w1.log)] =
        [current |-> getCurrentProject(w), contexts |-> w.projs,
         history |-> w.hist] @@ @]

\* the handler of waitFor: if (timer) clearTimeout(timer); resolve(payload)
onWaitedEvent(w, h, seq) ==
  [w EXCEPT !.subs[h].timer = FALSE,
            !.subs[h].invoked = @ + 1,
            !.subs[h].state = IF @ = "pending" THEN "resolved" ELSE @,
            !.subs[h].value = IF w.subs[h].state = "pending" THEN seq ELSE @]

\* ------------------------------------------------------- EventBus dispatch
\* eventemitter3's removeListener(event, fn, undefined, once): the listeners of
\* the event become the array of those that are not fn (or not once-listeners,
\* when once is asked for)
removeListener(w, event, fn, once) ==
  [w EXCEPT !.lis[event] =
     SelectSeq(@, LAMBDA x : ~(/\ x.kind = fn.kind
                               /\ x.arg = fn.arg
                               /\ (once => "once" \in DOMAIN x)))]

invoke(w, listener, event, seq, payload) ==
  CASE listener.kind = "autoflow" ->
         \* async: what it raises rejects its promise and reaches no caller
         [onPhaseComplete(w, listener.arg, payload) EXCEPT !.thrown = FALSE]
    [] listener.kind = "worker" ->
         [onPhaseStart(w, listener.arg) EXCEPT !.thrown = FALSE]
    [] listener.kind = "lead" -> onPhaseCompleteLead(w, payload)
    [] listener.kind = "orchestrator" ->
         setupAgentsForPurpose(w, Get(payload, "purposeId"))
    [] listener.kind = "realign" -> clearAgents(w)
    [] listener.kind = "probe" -> recordCall(w, listener.arg, event, seq, payload)
    [] listener.kind = "republisher" ->
         LET w1 == recordCall(w, listener.arg, event, seq, payload)
         IN IF "again" \in DOMAIN payload THEN w1
            ELSE emit(w1, event, [timestamp |-> now, again |-> TRUE])
    [] listener.kind = "thrower" ->
         [recordCall(w, listener.arg, event, seq, payload) EXCEPT !.thrown = TRUE]
    [] listener.kind = "observer" -> observe(w, listener.arg, event, seq, payload)
    [] listener.kind = "waiter" -> onWaitedEvent(w, listener.arg, seq)
    [] OTHER -> w

\* eventemitter3's emit loops over the array of listeners it found when it was
\* called, up to the length the array had then; a once-listener is removed
\* from the registered listeners just before it is called.  Nothing is caught:
\* what a listener raises ends the loop and reaches the caller of emit.
RECURSIVE dispatch(_, _, _, _, _, _)
dispatch(w, ls, i, event, seq, payload) ==
  IF i > Len(ls) \/ w.thrown THEN w
  ELSE LET w1 == IF "once" \in DOMAIN ls[i]
                 THEN removeListener(w, event, ls[i], TRUE)
                 ELSE w
       IN dispatch(invoke(w1, ls[i], event, seq, payload), ls, i + 1, event, seq, payload)

emit(w, event, payload) ==
  LET stamped == IF "timestamp" \notin DOMAIN payload
                 THEN ("timestamp" :> now) @@ payload
                 ELSE payload
      w1 == addToHistory(w, event, stamped)
  IN dispatch(w1, w1.lis[event], 1, event, w1.count, stamped)

\* a subscription that puts the new handler before the earlier ones
on_prepends(w, event, kind) ==
  LET h == Len(w.subs) + 1
  IN [w EXCEPT !.subs = Append(@, [kind |-> kind, channel |-> event, once |-> FALSE]),
               !.lis[event] = <<[kind |-> kind, arg |-> h]>> \o @]

\* EventBus.on and EventBus.once with a new handler
on(w, event, kind) ==
  LET h == Len(w.subs) + 1
  IN [w EXCEPT !.subs = Append(@, [kind |-> kind, channel |-> event, once |-> FALSE]),
               !.lis[event] = Append(@, [kind |-> kind, arg |-> h])]

once(w, event, kind) ==
  LET h == Len(w.subs) + 1
  IN [w EXCEPT !.subs = Append(@, [kind |-> kind, channel |-> event, once |-> TRUE]),
               !.lis[event] = Append(@, [kind |-> kind, arg |-> h, once |-> TRUE])]

\* a removal that spares the listeners of the engine
removeAllListeners_sparesEngine(w) ==
  [w EXCEPT !.lis = [ev \in EventType |->
                       SelectSeq(w.lis[ev], LAMBDA l : l.kind = "autoflow")]]

\* EventBus.removeAllListeners
removeAllListeners(w) == [w EXCEPT !.lis = [ev \in EventType |-> <<>>]]

\* EventBus.off
off(w, event, fn) == removeListener(w, event, fn, FALSE)

\* EventBus.waitFor: a timer when the timeout is truthy, and a once-handler
waitFor(w, event, timeout) ==
  LET h == Len(w.subs) + 1
  IN [w EXCEPT !.subs = Append(@, [kind |-> "waiter", channel |-> event, once |-> TRUE,
                                   timeout |-> timeout, timer |-> timeout # 0,
                                   state |-> "pending", value |-> 0, invoked |-> 0]),
               !.lis[event] = Append(@, [kind |-> "waiter", arg |-> h, once |-> TRUE])]

\* the timer of waitFor fires: this.off(event, handler); reject(...)
onWaitTimeout(w, h) ==
  LET w1 == off(w, w.subs[h].channel, [kind |-> "waiter", arg |-> h])
  IN [w1 EXCEPT !.subs[h].timer = FALSE,
                !.subs[h].state = IF @ = "pending" THEN "rejected" ELSE @]

getHistory == eventHistory

\* ------------------------------------------------------------------- Init
\* The state after the modules are loaded: the singletons are constructed,
\* AgentManager, AutoFlow and the orchestrator module have subscribed.
InitListeners ==
  [ev \in EventType |->
     IF ev \in CompleteEvents THEN << [kind |-> "autoflow", arg |-> PhaseOfEvent(ev)] >>
     ELSE IF ev = "purpose.selected" THEN << [kind |-> "orchestrator", arg |-> Undef] >>
     ELSE IF ev = "project.realign" THEN << [kind |-> "realign", arg |-> Undef] >>
     ELSE IF ev = "system.error" THEN << [kind |-> "syserror", arg |-> Undef] >>
     ELSE <<>>]

Init ==
  /\ eventHistory = <<>>
  /\ listeners = InitListeners
  /\ emitCount = 0
  /\ calls = 0
  /\ projects = EmptyFn
  /\ currentProjectId = NoProject
  /\ created = 0
  /\ workflows = [default |-> defaultWorkflow]
  /\ currentPhase = Undef
  /\ isRunning = FALSE
  /\ agents = <<>>
  /\ teams = 0
  /\ leadAgents = 0
  /\ pending = <<>>
  /\ timers = 0
  /\ now = 1
  /\ invocations = <<>>
  /\ thrown = FALSE
  /\ subscribers = <<>>
  /\ disk = EmptyFn
  /\ io = "ok"
  /\ minted = 0
  /\ agentsByRole = EmptyFn
  /\ executions = <<>>
  /\ initialized = FALSE

\* -------------------------------------------------------------- AutoCursor
\* initialize: unless already initialized, reload the projects from their
\* files and publish SYSTEM_INIT
initialize(w) ==
  IF w.initialized THEN w
  ELSE LET w1 == emit(loadAllProjects(w), "system.init",
                      [timestamp |-> now, source |-> "AutoCursor"])
       IN IF w1.thrown THEN w1 ELSE [w1 EXCEPT !.initialized = TRUE]

\* shutdown: clear the registry, remove every listener of the bus
shutdown(w) ==
  [removeAllListeners(clearAgents(w)) EXCEPT !.initialized = FALSE]

\* ---------------------------------------------------------------- actions
Budget == calls < MaxCalls

\* Every call happens no earlier than the one before it: Date.now() advances
\* by one from call to call until it reaches MaxClock, and then stands still
\* (calls within the same millisecond).
Later == now' = IF now < MaxClock THEN now + 1 ELSE now

\* memoryStore.createProject(purposeId, ...)
CreateProject ==
  /\ Later
  /\ Budget
  /\ calls' = calls + 1
  /\ created < MaxProjects
  /\ \E purposeId \in PurposeIds :
       Commit(createProject(World, created + 1, purposeId))
  /\ created' = created + 1
  /\ UNCHANGED <<workflows, teams, leadAgents, timers>>

\* autoFlow.registerWorkflow(name, phases)
RegisterWorkflow ==
  /\ Later
  /\ Budget
  /\ calls' = calls + 1
  /\ \E phases \in CustomWorkflows :
       workflows' = ("custom" :> phases) @@ workflows
  /\ UNCHANGED <<eventHistory, listeners, emitCount, projects,
                 currentProjectId, created, currentPhase, isRunning, agents, teams,
                 leadAgents, pending, timers, others>>

\* autoFlow.startWorkflow(workflowName), also with an unknown name
StartWorkflow ==
  /\ Later
  /\ Budget
  /\ calls' = calls + 1
  /\ \E workflowName \in {"default", "custom", "unknown"} :
       Commit(startWorkflow(World, workflowName))
  /\ UNCHANGED <<created, workflows, teams, leadAgents, timers>>

\* eventBus.emit of a phase complete-event by any publisher
PublishComplete ==
  /\ Later
  /\ Budget
  /\ calls' = calls + 1
  /\ \E p \in PhaseNames, r \in Results :
       Commit(emit(World, PhaseComplete[p],
                   [phase |-> p, result |-> r, artifacts |-> r]))
  /\ UNCHANGED <<created, workflows, teams, leadAgents, timers>>

\* eventBus.emit of a phase start-event by any publisher
PublishStart ==
  /\ Later
  /\ Budget
  /\ calls' = calls + 1
  /\ Len(pending) < MaxPending
  /\ \E p \in PhaseNames :
       Commit(emit(World, PhaseStart[p], [timestamp |-> now, phase |-> p]))
  /\ UNCHANGED <<created, workflows, teams, leadAgents, timers>>

\* eventBus.emit(PURPOSE_SELECTED, ...): the orchestrator builds the team
PublishPurposeSelected ==
  /\ Later
  /\ Budget
  /\ calls' = calls + 1
  /\ teams < MaxTeams
  /\ \E purposeId \in PurposeIds :
       Commit(emit(World, "purpose.selected",
                   [timestamp |-> now, purposeId |-> purposeId, source |-> "LeadAgent"]))
  /\ teams' = teams + 1
  /\ UNCHANGED <<created, workflows, leadAgents, timers>>

\* eventBus.clearHistory()
ClearHistory ==
  /\ Later
  /\ Budget
  /\ calls' = calls + 1
  /\ eventHistory' = <<>>
  /\ emitCount' = 0
  /\ UNCHANGED <<listeners, projects, currentProjectId, created, workflows,
                 currentPhase, isRunning, agents, teams, leadAgents, pending, timers,
                 others>>

\* execute of the worker whose listener began first returns: with a failure
\* output when there was no current project or when its try block caught an
\* error, else after storing its artifact
WorkerReturns ==
  /\ Later
  /\ pending # <<>>
  /\ pending[1].state = "running"
  /\ \E outcome \in (IF pending[1].project = NoProject THEN {"failed"}
                     ELSE {"ok", "failed"}) :
       LET task == pending[1]
           w1 == IF outcome = "ok"
                 THEN storeArtifact(World, task.project, ArtifactKey[task.phase], "doc")
                 ELSE World
       IN Commit([w1 EXCEPT !.pending[1].state = outcome])
  /\ UNCHANGED <<calls, created, workflows, teams, leadAgents, timers>>

\* the worker's listener resumes after the await and emits the complete-event
\* with result.result and result.artifacts, whatever result.success is
ListenerResumes ==
  /\ Later
  /\ pending # <<>>
  /\ pending[1].state # "running"
  /\ LET task == pending[1]
         out == IF task.state = "ok" THEN "doc" ELSE Undef
         w1 == [World EXCEPT !.pending = Tail(@)]
     IN Commit(emit(w1, PhaseComplete[task.phase],
                    [timestamp |-> now, phase |-> task.phase, result |-> out,
                     artifacts |-> out, source |-> WorkerName[task.phase]]))
  /\ UNCHANGED <<calls, created, workflows, teams, leadAgents, timers>>

\* new LeadAgent(): its constructor subscribes to every complete-event
GetLeadAgent ==
  /\ Later
  /\ Budget
  /\ calls' = calls + 1
  /\ leadAgents < MaxLeadAgents
  /\ leadAgents' = leadAgents + 1
  /\ listeners' = [ev \in EventType |->
                     IF ev \in CompleteEvents
                     THEN Append(listeners[ev], [kind |-> "lead", arg |-> Undef])
                     ELSE listeners[ev]]
  /\ UNCHANGED <<eventHistory, emitCount, projects, currentProjectId, created, workflows,
                 currentPhase, isRunning, agents, teams, pending, timers, others>>

\* LeadAgent.execute with a message that names a purpose: handlePurposeSelection
\* creates the project, emits PURPOSE_SELECTED and arms the startWorkflow timer
SelectPurpose ==
  /\ Later
  /\ leadAgents > 0
  /\ created < MaxProjects
  /\ teams < MaxTeams
  /\ \E purposeId \in PurposeIds :
       LET w1 == createProject(World, created + 1, purposeId)
           w2 == addConversation(w1, created + 1, "user", "userMessage")
           w3 == emit(w2, "purpose.selected",
                      [timestamp |-> now, purposeId |-> purposeId,
                       source |-> "LeadAgent"])
       IN Commit(IF w3.thrown THEN w3
                 ELSE addConversation(w3, created + 1, "lead", "responseMessage"))
  /\ created' = created + 1
  /\ teams' = teams + 1
  /\ timers' = timers + 1
  /\ UNCHANGED <<calls, workflows, leadAgents>>

\* LeadAgent.execute with any other message: handleConversation
Converse ==
  /\ Later
  /\ leadAgents > 0
  /\ getCurrentProject(World) # NoProject
  /\ Len(projects[currentProjectId].conversationHistory) < MaxConversation
  /\ LET project == getCurrentProject(World)
         w1 == addConversation(World, project, "user", "message")
     IN Commit(addConversation(w1, project, "lead", <<"contextual", currentPhase>>))
  /\ UNCHANGED <<calls, created, workflows, teams, leadAgents, timers>>

\* the timer of handlePurposeSelection fires: autoFlow.startWorkflow()
TimerFires ==
  /\ Later
  /\ timers > 0
  /\ timers' = timers - 1
  /\ Commit(startWorkflow(World, "default"))
  /\ UNCHANGED <<calls, created, workflows, teams, leadAgents>>

\* eventBus.on(event, handler) and eventBus.once(event, handler)
Subscribe ==
  /\ Later
  /\ Budget
  /\ calls' = calls + 1
  /\ Len(subscribers) < MaxSubscribers
  /\ \E event \in BusChannels, kind \in HandlerKinds, one \in BOOLEAN :
       Commit(IF one THEN once(World, event, kind) ELSE on(World, event, kind))
  /\ UNCHANGED <<created, workflows, teams, leadAgents, timers>>

\* eventBus.waitFor(event, timeout)
WaitFor ==
  /\ Later
  /\ Budget
  /\ calls' = calls + 1
  /\ Len(subscribers) < MaxSubscribers
  /\ \E event \in BusChannels, timeout \in Timeouts :
       Commit(waitFor(World, event, timeout))
  /\ UNCHANGED <<created, workflows, teams, leadAgents, timers>>

\* eventBus.emit(event, payload) by a client; the purpose it selects is not
\* one of the registry
Publish ==
  /\ Later
  /\ Budget
  /\ calls' = calls + 1
  /\ \E event \in BusChannels :
       Commit(emit(World, event,
                   IF event = "purpose.selected" THEN [purposeId |-> "unknown"]
                   ELSE [message |-> "test"]))
  /\ UNCHANGED <<created, workflows, teams, leadAgents, timers>>

\* the timer of a waitFor call fires
TimeoutFires ==
  /\ Later
  /\ \E h \in 1..Len(subscribers) :
       /\ subscribers[h].kind = "waiter"
       /\ subscribers[h].timer
       /\ Commit(onWaitTimeout(World, h))
  /\ UNCHANGED <<calls, created, workflows, teams, leadAgents, timers>>

\* ids given to the store: those of the projects created and one more
ProjectIds == 1..MaxProjects

StoreFrame == UNCHANGED <<created, workflows, teams, leadAgents, timers>>

\* memoryStore.updateProjectStatus(projectId, status)
SetStatus(id) ==
  /\ Later /\ Budget /\ calls' = calls + 1
  /\ \E status \in {"requirements", "failed"}, o \in IOOutcomes :
       Commit(updateProjectStatus(WorldIO(o), id, status))
  /\ StoreFrame

UpdateProjectStatus == \E id \in ProjectIds : SetStatus(id)

\* memoryStore.updatePhase(projectId, phaseName, phaseData)
Upsert(id, phaseName, phaseData) ==
  /\ Later /\ Budget /\ calls' = calls + 1
  /\ \E o \in IOOutcomes : Commit(updatePhase(WorldIO(o), id, phaseName, phaseData))
  /\ StoreFrame

UpdatePhase ==
  \E id \in ProjectIds, phaseName \in UpsertNames, phaseData \in PhasePartials :
     Upsert(id, phaseName, phaseData)

\* memoryStore.storeArtifact(projectId, artifactKey, artifactData)
Store(id) ==
  /\ Later /\ Budget /\ calls' = calls + 1
  /\ \E value \in AnyValues, o \in IOOutcomes :
       Commit(storeArtifact(WorldIO(o), id, "requirements", value))
  /\ StoreFrame

StoreArtifact == \E id \in ProjectIds : Store(id)

\* memoryStore.addConversation(projectId, role, message)
Say(id) ==
  /\ Later /\ Budget /\ calls' = calls + 1
  /\ \E o \in IOOutcomes :
       Commit(addConversation(WorldIO(o), id, "user", "message"))
  /\ StoreFrame

AddConversation == \E id \in ProjectIds : Say(id)

\* memoryStore.updateMetadata(projectId, key, value)
SetMetadata(id) ==
  /\ Later /\ Budget /\ calls' = calls + 1
  /\ \E value \in AnyValues, o \in IOOutcomes :
       Commit(updateMetadata(WorldIO(o), id, "key", value))
  /\ StoreFrame

UpdateMetadata == \E id \in ProjectIds : SetMetadata(id)

\* memoryStore.deleteProject(projectId)
Delete(id) ==
  /\ Later /\ Budget /\ calls' = calls + 1
  /\ \E o \in IOOutcomes : Commit(deleteProject(WorldIO(o), id))
  /\ StoreFrame

DeleteProject == \E id \in ProjectIds : Delete(id)

\* the pivot of LeadAgent.generateContextualResponse: PROJECT_REALIGN is
\* published and the AgentManager clears its agents
Realign ==
  /\ Later /\ Budget /\ calls' = calls + 1
  /\ Commit(emit(World, "project.realign", [timestamp |-> now, source |-> "LeadAgent"]))
  /\ StoreFrame

\* AutoCursor.shutdown: clearAgents and removeAllListeners
Shutdown ==
  /\ Later /\ Budget /\ calls' = calls + 1
  /\ Commit(shutdown(World))
  /\ StoreFrame

\* AutoCursor.initialize
Initialize ==
  /\ Later /\ Budget /\ calls' = calls + 1
  /\ \E o \in IOOutcomes : Commit(initialize(WorldIO(o)))
  /\ StoreFrame

\* memoryStore.setCurrentProject(projectId)
SetCurrent(id) ==
  /\ Later /\ Budget /\ calls' = calls + 1
  /\ Commit(setCurrentProject(World, id))
  /\ StoreFrame

SetCurrentProject == \E id \in ProjectIds : SetCurrent(id)

\* memoryStore.loadProject(projectId)
LoadProject ==
  /\ Later /\ Budget /\ calls' = calls + 1
  /\ \E id \in ProjectIds, o \in IOOutcomes : Commit(loadProject(WorldIO(o), id))
  /\ StoreFrame

\* memoryStore.loadAllProjects()
LoadAllProjects ==
  /\ Later /\ Budget /\ calls' = calls + 1
  /\ \E o \in IOOutcomes : Commit(loadAllProjects(WorldIO(o)))
  /\ StoreFrame

Next ==
  \/ CreateProject
  \/ RegisterWorkflow
  \/ StartWorkflow
  \/ PublishComplete
  \/ PublishStart
  \/ PublishPurposeSelected
  \/ ClearHistory
  \/ GetLeadAgent
  \/ WorkerReturns
  \/ ListenerResumes

Spec == Init /\ [][Next]_vars

\* The system left to itself after the user's messages: no event is published
\* from outside.  Timers fire and pending promise continuations run.
NextAuto ==
  \/ GetLeadAgent
  \/ SelectPurpose
  \/ Converse
  \/ TimerFires
  \/ WorkerReturns
  \/ ListenerResumes

SpecAuto ==
  /\ Init
  /\ [][NextAuto]_vars
  /\ WF_vars(TimerFires)
  /\ WF_vars(WorkerReturns)
  /\ WF_vars(ListenerResumes)

\* The bus used by clients of their own: they subscribe handlers, wait for
\* events and publish.
NextBus ==
  \/ Subscribe
  \/ WaitFor
  \/ Publish
  \/ TimeoutFires

SpecBus == Init /\ [][NextBus]_vars

\* ---------------------------------------------- the AgentManager's callers
\* roles given to agentManager.createAgent
AgentRoles == {"backend", "frontend"}

AgentIds == 1..MaxAgents

\* agentManager.createAgent(role, config, agent)
CreateAgent ==
  /\ Later /\ UNCHANGED calls
  /\ minted < MaxAgents
  /\ \E role \in AgentRoles : Commit(createAgent(World, role))
  /\ StoreFrame

\* agentManager.executeAgent(agentId, input), up to its await
Execute(agentId) ==
  /\ Later /\ Budget /\ calls' = calls + 1
  /\ Len(executions) < MaxExecutions
  /\ Commit(executeAgent(World, agentId))
  /\ StoreFrame

ExecuteAgent == \E agentId \in AgentIds : Execute(agentId)

\* the k-th awaiting executeAgent resumes with the outcome of agent.execute
Settle(k, outcome) ==
  /\ Later /\ UNCHANGED calls
  /\ k \in 1..Len(executions)
  /\ Commit(executeSettles(World, k, outcome))
  /\ StoreFrame

\* agent.execute of an awaiting executeAgent returns
ExecuteReturns ==
  \E k \in 1..MaxExecutions, outcome \in ExecuteOutcomes \ {"raised"} :
     Settle(k, outcome)

\* agent.execute of an awaiting executeAgent raises
ExecuteRaises == \E k \in 1..MaxExecutions : Settle(k, "raised")

\* agentManager.removeAgent(agentId)
RemoveAgent ==
  /\ Later /\ UNCHANGED calls
  /\ \E agentId \in AgentIds : Commit(removeAgent(World, agentId))
  /\ StoreFrame

\* agentManager.clearAgents()
ClearAgents ==
  /\ Later /\ UNCHANGED calls
  /\ Commit(clearAgents(World))
  /\ StoreFrame

\* the channels of the agents' lifecycle events
AgentChannels == {"agent.started", "agent.completed", "agent.failed"}

\* eventBus.on(event, handler) for a lifecycle event, with a handler that
\* returns or one that raises
Watch ==
  /\ Later /\ Budget /\ calls' = calls + 1
  /\ Len(subscribers) < MaxSubscribers
  /\ \E event \in AgentChannels, kind \in {"probe", "thrower"} :
       Commit(on(World, event, kind))
  /\ StoreFrame

\* executeAgent with subscribers of the lifecycle events
NextLifecycle ==
  \/ CreateAgent
  \/ Watch
  \/ ExecuteAgent
  \/ ExecuteReturns
  \/ ExecuteRaises

SpecLifecycle == Init /\ [][NextLifecycle]_vars

\* The registry and the store in use while pivots and shutdowns happen.
NextPivot ==
  \/ CreateProject
  \/ UpdateProjectStatus
  \/ CreateAgent
  \/ ExecuteAgent
  \/ ExecuteReturns
  \/ ExecuteRaises
  \/ Realign
  \/ Shutdown

SpecPivot == Init /\ [][NextPivot]_vars

\* eventBus.emit(PURPOSE_SELECTED, {purposeId}) for a registered purpose
Select(purposeId) ==
  /\ Later /\ Budget /\ calls' = calls + 1
  /\ Commit(emit(World, "purpose.selected",
                 [timestamp |-> now, purposeId |-> purposeId, source |-> "LeadAgent"]))
  /\ StoreFrame

SelectRegistered == \E purposeId \in DOMAIN registeredPurposes : Select(purposeId)

\* Teams built on purpose selections, between pivots and direct uses of the
\* registry.
NextTeam ==
  \/ SelectRegistered
  \/ CreateAgent
  \/ RemoveAgent
  \/ Realign

SpecTeam == Init /\ [][NextTeam]_vars

\* The bus with the core's and the clients' subscriptions, the teams of
\* selected purposes, and shutdown.
NextShutdown ==
  \/ Subscribe
  \/ SelectRegistered
  \/ Publish
  \/ PublishComplete
  \/ Shutdown

SpecShutdown == Init /\ [][NextShutdown]_vars

\* The engine driving the workers of the teams built on purpose selections,
\* between pivots.
NextWorkers ==
  \/ CreateProject
  \/ SelectRegistered
  \/ Realign
  \/ StartWorkflow
  \/ WorkerReturns
  \/ ListenerResumes

SpecWorkers == Init /\ [][NextWorkers]_vars

\* The core between initialize and shutdown calls.
NextRestart ==
  \/ Initialize
  \/ Shutdown
  \/ CreateProject
  \/ CreateAgent
  \/ PublishComplete
  \/ Realign

SpecRestart == Init /\ [][NextRestart]_vars

\* eventBus.on(startEvent, handler) with a handler that reads the store and
\* the history
Observe ==
  /\ Later /\ Budget /\ calls' = calls + 1
  /\ Len(subscribers) < MaxSubscribers
  /\ \E event \in {PhaseStart["requirements"], PhaseStart["architecture"]} :
       Commit(on(World, event, "observer"))
  /\ StoreFrame

\* The workflow with subscribers of its start-events.
NextOrder ==
  \/ CreateProject
  \/ PublishPurposeSelected
  \/ Observe
  \/ StartWorkflow
  \/ PublishComplete
  \/ WorkerReturns
  \/ ListenerResumes

SpecOrder == Init /\ [][NextOrder]_vars

\* The AgentManager used through its own API.
NextAgents ==
  \/ CreateAgent
  \/ ExecuteAgent
  \/ ExecuteReturns
  \/ ExecuteRaises
  \/ RemoveAgent
  \/ ClearAgents

SpecAgents == Init /\ [][NextAgents]_vars

\* The store used through its own API.
NextStore ==
  \/ CreateProject
  \/ UpdateProjectStatus
  \/ UpdatePhase
  \/ StoreArtifact
  \/ AddConversation
  \/ UpdateMetadata
  \/ DeleteProject
  \/ SetCurrentProject
  \/ LoadProject
  \/ LoadAllProjects

SpecStore == Init /\ [][NextStore]_vars

\* The store together with the engine, the registry and the bus: every
\* operation that could touch a project.
NextSystem ==
  \/ NextStore
  \/ StartWorkflow
  \/ PublishComplete
  \/ PublishPurposeSelected
  \/ Realign
  \/ Shutdown
  \/ WorkerReturns
  \/ ListenerResumes

SpecSystem == Init /\ [][NextSystem]_vars

\* ---------------------------------------------------------- observations
\* the current project's context before and after a step
HasCurrent == getCurrentProject(World) # NoProject
Current == projects[currentProjectId]
CurrentAfter == projects'[currentProjectId]

\* the k-th event emitted by the step is ev
StepEmits(k, ev) ==
  /\ emitCount' >= emitCount + k
  /\ \E i \in 1..Len(eventHistory') :
       /\ eventHistory'[i].seq = emitCount + k
       /\ eventHistory'[i].event = ev

\* the payload of the k-th event emitted by the step
StepPayload(k) ==
  LET i == CHOOSE j \in 1..Len(eventHistory') : eventHistory'[j].seq = emitCount + k
  IN eventHistory'[i].payload

\* the declared chain of the default workflow
DefaultChain == <<"requirements", "architecture", "development", "testing", "devops",
                  "documentation">>

Successor(p) ==
  LET i == CHOOSE j \in 1..Len(DefaultChain) : DefaultChain[j] = p
  IN DefaultChain[i + 1]

NonFinalPhases == {DefaultChain[i] : i \in 1..(Len(DefaultChain) - 1)}

InProgress(project) ==
  {n \in DOMAIN project.phases : project.phases[n].status = "in_progress"}

\* ------------------------------------------------------------------ claims

\* C1: with a current project, a step that publishes the complete-event of a
\* non-final phase P of the default workflow publishes exactly one more event,
\* the start-event of the successor of P, leaves P's record completed with a
\* completedAt and the payload's result and artifacts, and leaves the
\* successor's record in_progress with a startedAt.
C1_CompleteAdvances ==
  [][\A p \in NonFinalPhases :
       (HasCurrent /\ StepEmits(1, PhaseComplete[p])) =>
          /\ emitCount' = emitCount + 2
          /\ StepEmits(2, PhaseStart[Successor(p)])
          /\ StepPayload(2).phase = Successor(p)
          /\ p \in DOMAIN CurrentAfter.phases
          /\ CurrentAfter.phases[p].status = "completed"
          /\ "completedAt" \in DOMAIN CurrentAfter.phases[p]
          /\ CurrentAfter.phases[p].completedAt = now
          /\ CurrentAfter.phases[p].result = Get(StepPayload(1), "result")
          /\ CurrentAfter.phases[p].artifacts = Get(StepPayload(1), "artifacts")
          /\ Successor(p) \in DOMAIN CurrentAfter.phases
          /\ CurrentAfter.phases[Successor(p)].status = "in_progress"
          /\ "startedAt" \in DOMAIN CurrentAfter.phases[Successor(p)]
          /\ CurrentAfter.phases[Successor(p)].startedAt = now]_vars

\* a complete-event of testing carrying a result was published and handled:
\* testing is completed with that result, devops is in progress and its
\* start-event is the last event of the history
C1_Witness ==
  /\ HasCurrent
  /\ Len(eventHistory) >= 2
  /\ eventHistory[Len(eventHistory) - 1].event = PhaseComplete.testing
  /\ eventHistory[Len(eventHistory)].event = PhaseStart.devops
  /\ "testing" \in DOMAIN Current.phases
  /\ Current.phases["testing"].status = "completed"
  /\ Current.phases["testing"].result = "r1"
  /\ "devops" \in DOMAIN Current.phases
  /\ Current.phases["devops"].status = "in_progress"

\* C2: a created project has status initializing; a step in which
\* startWorkflow publishes the start-event of a workflow's first phase (a phase
\* whose name has a mapped status) publishes nothing else and leaves the
\* project's status equal to the status mapped from that phase name and the
\* phase's record in_progress with a startedAt.
StartWorkflowStep ==
  /\ HasCurrent
  /\ \E ev \in StartEvents : StepEmits(1, ev)
  /\ Get(StepPayload(1), "source") = "AutoFlow"

C2_StartSetsMappedStatus ==
  [][/\ (created' = created + 1) => projects'[created'].status = "initializing"
     /\ (StartWorkflowStep /\ StepPayload(1).phase \in PhaseNames) =>
          /\ emitCount' = emitCount + 1
          /\ CurrentAfter.status = StepPayload(1).phase
          /\ StepPayload(1).phase \in DOMAIN CurrentAfter.phases
          /\ CurrentAfter.phases[StepPayload(1).phase].status = "in_progress"
          /\ "startedAt" \in DOMAIN CurrentAfter.phases[StepPayload(1).phase]]_vars

\* C3: with a current project, a step that publishes the complete-event of
\* documentation, the phase without next-phase, sets the project's status to
\* completed, stops the engine and publishes no other event.
C3_FinalCompletes ==
  [][(HasCurrent /\ StepEmits(1, PhaseComplete.documentation)) =>
        /\ CurrentAfter.status = "completed"
        /\ isRunning' = FALSE
        /\ emitCount' = emitCount + 1]_vars

\* the workflow was running, documentation's complete-event was the last
\* event published and the project is completed
C3_Witness ==
  /\ HasCurrent
  /\ Current.status = "completed"
  /\ ~isRunning
  /\ currentPhase # Undef
  /\ eventHistory # <<>>
  /\ eventHistory[Len(eventHistory)].event = PhaseComplete.documentation
  /\ "documentation" \in DOMAIN Current.phases
  /\ Current.phases["documentation"].status = "completed"

\* C4: a complete-event makes the engine start a phase only when the
\* predecessor of that phase was the phase in progress, so phases are started
\* strictly forward along the chain.
C4_ForwardOnly ==
  [][\A p \in NonFinalPhases :
       (HasCurrent /\ StepEmits(1, PhaseComplete[p])
          /\ StepEmits(2, PhaseStart[Successor(p)])) =>
          /\ InProgress(Current) = {p}
          /\ Successor(p) \notin DOMAIN Current.phases]_vars

\* C5: every project has at most one phase record in_progress.
C5_OneInProgress ==
  \A id \in DOMAIN projects : Cardinality(InProgress(projects[id])) <= 1

\* C6: whenever the engine changes the status of the current project, the new
\* status is completed or the status mapped from the phase the engine is in.
C6_StatusFollowsPhase ==
  [][(HasCurrent /\ CurrentAfter.status # Current.status
        /\ currentPhase' \in PhaseNames) =>
          CurrentAfter.status \in {"completed", statusMap(currentPhase')}]_vars

\* C7: when the first phase of the registered custom workflow is in progress
\* (a phase name the default workflow does not have), publishing that phase's
\* declared complete-event completes it and starts the phase the custom
\* workflow declares next, or completes the project when none is declared.
CustomFirst == workflows["custom"][1]

C7_CustomWorkflowAdvances ==
  [][("custom" \in DOMAIN workflows /\ HasCurrent
        /\ CustomFirst.name \notin PhaseNames
        /\ currentPhase = CustomFirst.name
        /\ InProgress(Current) = {CustomFirst.name}
        /\ StepEmits(1, CustomFirst.completeEvent)) =>
          /\ CurrentAfter.phases[CustomFirst.name].status = "completed"
          /\ IF Get(CustomFirst, "nextPhase") = Undef
             THEN CurrentAfter.status = "completed"
             ELSE /\ CustomFirst.nextPhase \in DOMAIN CurrentAfter.phases
                  /\ CurrentAfter.phases[CustomFirst.nextPhase].status = "in_progress"
                  /\ StepPayload(2).phase = CustomFirst.nextPhase]_vars

\* C8: when the worker of a phase has failed, the step in which its listener
\* resumes publishes no start-event and does not complete the phase's record.
FailedWorkerResumes ==
  /\ pending # <<>>
  /\ pending[1].state = "failed"
  /\ StepEmits(1, PhaseComplete[pending[1].phase])
  /\ Get(StepPayload(1), "source") = WorkerName[pending[1].phase]

C8_FailureHalts ==
  [][FailedWorkerResumes =>
       /\ emitCount' = emitCount + 1
       /\ \A id \in DOMAIN projects' :
            pending[1].phase \in DOMAIN projects'[id].phases =>
               projects'[id].phases[pending[1].phase].status # "completed"]_vars

\* C9: once a purpose is selected and startWorkflow has run for the default
\* workflow, the system left to itself ends with the project completed: when
\* no timer is armed and no worker handler is left to run, the project's
\* status is completed.
Quiescent == timers = 0 /\ pending = <<>>

C9_AutoCompletes ==
  (teams > 0 /\ isRunning /\ Quiescent) =>
     (HasCurrent /\ Current.status = "completed")

\* C10: the history holds exactly the last min(n, capacity) of the n events
\* emitted since the last clearHistory, in emission order.
Min(a, b) == IF a < b THEN a ELSE b

C10_HistoryIsLastEmitted ==
  LET kept == Min(emitCount, maxHistorySize)
  IN /\ Len(getHistory) = kept
     /\ \A i \in 1..kept : getHistory[i].seq = emitCount - kept + i

\* two more events than the capacity were emitted
C10_Witness ==
  /\ emitCount = maxHistorySize + 2
  /\ Len(getHistory) = maxHistorySize
  /\ getHistory[1].seq = emitCount - maxHistorySize + 1

\* ----------------------------------------------------------- MemoryStore
\* the step wrote the context of project id in memory
Mutated(id) ==
  /\ id \in DOMAIN projects'
  /\ id \notin DOMAIN projects \/ projects'[id] # projects[id]

\* C16: when a step changes or creates a project's context in memory and its
\* file operations succeed, the project's file holds the JSON text of the
\* context the step leaves in memory.
C16_WriteThrough ==
  [][\A id \in ProjectIds :
       (Mutated(id) /\ io' = "ok") =>
          /\ id \in DOMAIN disk'
          /\ disk'[id] = stringify(projects'[id])]_vars

\* a project with a phase record, an artifact and a metadata entry whose file
\* is the text of its context, a text that differs from the context
C16_Witness ==
  /\ 1 \in DOMAIN projects
  /\ 1 \in DOMAIN disk
  /\ io = "ok"
  /\ DOMAIN projects[1].phases # {}
  /\ DOMAIN projects[1].artifacts # {}
  /\ DOMAIN projects[1].metadata # {}
  /\ disk[1] = stringify(projects[1])
  /\ disk[1] # projects[1]

\* the projects in memory whose file is the text of their context
Saved == {id \in DOMAIN projects \cap DOMAIN disk : disk[id] = stringify(projects[id])}

C18_OnlyDeleteRemoves ==
  [][\A id \in ProjectIds :
       /\ (Delete(id) /\ io' = "ok") =>
             /\ id \notin DOMAIN projects'
             /\ id \notin DOMAIN disk'
             /\ currentProjectId' = IF currentProjectId = id THEN NoProject
                                    ELSE currentProjectId
             /\ \A other \in ProjectIds \ {id} :
                  /\ other \in DOMAIN projects <=> other \in DOMAIN projects'
                  /\ other \in DOMAIN projects => projects'[other] = projects[other]
                  /\ other \in DOMAIN disk <=> other \in DOMAIN disk'
                  /\ other \in DOMAIN disk => disk'[other] = disk[other]
       /\ (\/ id \in DOMAIN projects /\ id \notin DOMAIN projects'
           \/ id \in DOMAIN disk /\ id \notin DOMAIN disk') => Delete(id)]_vars

\* project 1 was deleted while it was the current project and project 2 is
\* still in memory and on disk
C18_Witness ==
  /\ created = 2
  /\ 1 \notin DOMAIN projects
  /\ 1 \notin DOMAIN disk
  /\ 2 \in DOMAIN projects
  /\ 2 \in DOMAIN disk
  /\ currentProjectId = NoProject

\* C19: updatePhase(id, name, partial) on a project in memory leaves for name
\* a record that has every field of partial with partial's value and, for the
\* fields partial does not have, the previous value when a record existed and
\* else those of a fresh pending record (name, status pending, empty notes),
\* and no other field; the records of the other phases are unchanged.
C19_UpsertMerges ==
  [][\A id \in ProjectIds, name \in UpsertNames, partial \in PhasePartials :
       (Upsert(id, name, partial) /\ id \in DOMAIN projects) =>
          LET old == projects[id].phases
              new == projects'[id].phases
              base == IF name \in DOMAIN old THEN old[name]
                      ELSE [name |-> name, status |-> "pending", notes |-> <<>>]
          IN /\ DOMAIN new = DOMAIN old \cup {name}
             /\ DOMAIN new[name] = DOMAIN base \cup DOMAIN partial
             /\ \A f \in DOMAIN partial : new[name][f] = partial[f]
             /\ \A f \in DOMAIN base \ DOMAIN partial : new[name][f] = base[f]
             /\ \A other \in DOMAIN old \ {name} : new[other] = old[other]]_vars

\* a record was created by one updatePhase and merged by a second: it keeps
\* the name and startedAt of the first and has the status, completedAt and
\* undefined result of the second, next to the record of another phase
C19_Witness ==
  /\ 1 \in DOMAIN projects
  /\ DOMAIN projects[1].phases = {"requirements", "design"}
  /\ projects[1].phases["requirements"] =
        [name |-> "requirements", status |-> "completed", notes |-> <<>>,
         startedAt |-> 1, completedAt |-> 2, result |-> Undef]

\* -------------------------------------------------------------- EventBus
\* the number of calls of the client handler h
CallsOf(h) == Cardinality({k \in 1..Len(invocations) : invocations[k].handler = h})

\* the handler h is among the listeners of its channel
Registered(h) ==
  \E k \in 1..Len(listeners[subscribers[h].channel]) :
     /\ listeners[subscribers[h].channel][k].kind = subscribers[h].kind
     /\ listeners[subscribers[h].channel][k].arg = h

\* C11: a handler subscribed with once is called at most once, and it is
\* registered exactly as long as it has not been called.
C11_OnceCalledOnce ==
  \A h \in 1..Len(subscribers) :
     (subscribers[h].once /\ subscribers[h].kind \in HandlerKinds) =>
        /\ CallsOf(h) <= 1
        /\ (CallsOf(h) = 1) <=> ~Registered(h)

\* the client handlers subscribed to a channel, in subscription order
ClientHandlers(event) ==
  LET ls == SelectSeq(listeners[event], LAMBDA x : x.kind \in HandlerKinds)
  IN [k \in 1..Len(ls) |-> ls[k].arg]

\* the calls of client handlers the step makes
NewCalls == SubSeq(invocations', Len(invocations) + 1, Len(invocations'))

\* the handlers the step calls for the k-th event it emits, in call order
CalledFor(k) ==
  LET cs == SelectSeq(NewCalls, LAMBDA c : c.seq = emitCount + k)
  IN [j \in 1..Len(cs) |-> cs[j].handler]

C13_FailureIsContained ==
  [][\A event \in BusChannels :
       StepEmits(1, event) =>
          /\ ~thrown'
          /\ CalledFor(1) = ClientHandlers(event)]_vars

\* the handler of the waitFor call h is among the listeners after the step
RegisteredAfter(h) ==
  \E k \in 1..Len(listeners'[subscribers'[h].channel]) :
     /\ listeners'[subscribers'[h].channel][k].kind = "waiter"
     /\ listeners'[subscribers'[h].channel][k].arg = h

\* the waitFor calls made before the step, and those made up to its end
Waits == {h \in 1..Len(subscribers) : subscribers[h].kind = "waiter"}
WaitsAfter == {h \in 1..Len(subscribers') : subscribers'[h].kind = "waiter"}

\* C14: a waitFor call with a timeout that is not settled has a timer armed
\* that rejects it when it fires; once rejected, the call has no handler left
\* and no later publish calls its handler.
C14_TimeoutRejects ==
  [][/\ \A h \in WaitsAfter :
          /\ subscribers'[h].state = "pending" => subscribers'[h].timer
          /\ subscribers'[h].state = "rejected" => ~RegisteredAfter(h)
     /\ \A h \in Waits :
          /\ (subscribers[h].timer /\ ~subscribers'[h].timer /\ emitCount' = emitCount) =>
                subscribers'[h].state = "rejected"
          /\ subscribers[h].state = "rejected" =>
                /\ subscribers'[h].state = "rejected"
                /\ subscribers'[h].invoked = subscribers[h].invoked]_vars

\* C15: a settled waitFor call never changes its outcome and its handler is
\* not called again; a call resolves with the first event the step publishes
\* on its channel; a settled call has neither a handler nor a timer left.
C15_WaitSettlesOnce ==
  [][\A h \in Waits :
       /\ subscribers[h].state # "pending" =>
             /\ subscribers'[h].state = subscribers[h].state
             /\ subscribers'[h].value = subscribers[h].value
             /\ subscribers'[h].invoked = subscribers[h].invoked
       /\ (subscribers[h].state = "pending" /\ subscribers'[h].state = "resolved") =>
             /\ StepEmits(1, subscribers[h].channel)
             /\ subscribers'[h].value = emitCount + 1
             /\ subscribers'[h].invoked = 1
       /\ subscribers'[h].state # "pending" =>
             /\ ~subscribers'[h].timer
             /\ ~RegisteredAfter(h)]_vars

\* ----------------------------------------------------------- AgentManager
\* the sum of the counts of a Record<string, number>
RECURSIVE SumOf(_)
SumOf(counts) ==
  IF DOMAIN counts = {} THEN 0
  ELSE LET key == CHOOSE k \in DOMAIN counts : TRUE
       IN counts[key] + SumOf([k \in DOMAIN counts \ {key} |-> counts[k]])

\* the ids the manager tracks, by id and by role
TrackedIds == {agents[i].id : i \in 1..Len(agents)}
TrackedByRole ==
  UNION {{agentsByRole[r][i] : i \in 1..Len(agentsByRole[r])} : r \in DOMAIN agentsByRole}

\* C20: after any sequence of createAgent, executeAgent (returned, raised or
\* still awaiting), removeAgent and clearAgents, the per-status counts of
\* getStatistics() sum to its total, its per-role counts sum to its total, and
\* its total is the number of agents the manager tracks.
C20_StatisticsAddUp ==
  LET stats == getStatistics(World)
  IN /\ SumOf(stats.byStatus) = stats.total
     /\ SumOf(stats.byRole) = stats.total
     /\ stats.total = Cardinality(TrackedIds)
     /\ TrackedByRole = TrackedIds

\* Two agents of both roles are tracked, one working with its execution still
\* awaited and one failed, after another agent was removed.
C20_Witness ==
  /\ Len(agents) = 2
  /\ minted > Len(agents)
  /\ executions # <<>>
  /\ \E i, j \in 1..Len(agents) :
       /\ agents[i].status = "working" /\ agents[j].status = "failed"
       /\ agents[i].role # agents[j].role
       /\ \E k \in 1..Len(executions) : executions[k].agentId = agents[i].id
  /\ getStatistics(World).byStatus = [working |-> 1, failed |-> 1]

\* C21: when an awaiting executeAgent of a tracked agent resumes, the agent's
\* status becomes failed if execute raised or returned an output with success
\* false, and completed only if execute returned an output with success true.
C21_StatusFollowsOutcome ==
  [][\A k \in 1..MaxExecutions, outcome \in ExecuteOutcomes :
       (Settle(k, outcome) /\ agentIndex(World, executions[k].agentId) # 0) =>
          LET status == agents'[agentIndex(World, executions[k].agentId)].status
          IN /\ outcome \in {"raised", "errorOutput"} => status = "failed"
             /\ status = "completed" => outcome = "success"]_vars

\* the events of a channel that the step published
Published(event) ==
  {k \in 1..Len(eventHistory') :
     eventHistory'[k].seq > emitCount /\ eventHistory'[k].event = event}

\* C22: an executeAgent call on a tracked agent sets its status to working,
\* publishes one agent.started and no terminal event, and awaits one execute;
\* when the execute settles, exactly one terminal event is published:
\* agent.completed with the output if it returned, agent.failed with the
\* error if it raised -- whoever is subscribed to these events.
C22_OneStartOneEnd ==
  [][/\ \A agentId \in AgentIds :
          (Execute(agentId) /\ agentIndex(World, agentId) # 0) =>
             /\ agents'[agentIndex(World, agentId)].status = "working"
             /\ Cardinality(Published("agent.started")) = 1
             /\ Published("agent.completed") = {}
             /\ Published("agent.failed") = {}
             /\ Len(executions') = Len(executions) + 1
     /\ \A k \in 1..MaxExecutions, outcome \in ExecuteOutcomes :
          Settle(k, outcome) =>
             /\ Len(executions') = Len(executions) - 1
             /\ Published("agent.started") = {}
             /\ IF outcome = "raised"
                THEN /\ Published("agent.completed") = {}
                     /\ Cardinality(Published("agent.failed")) = 1
                     /\ \A e \in Published("agent.failed") :
                          eventHistory'[e].payload.error = "Error"
                ELSE /\ Published("agent.failed") = {}
                     /\ Cardinality(Published("agent.completed")) = 1
                     /\ \A e \in Published("agent.completed") :
                          eventHistory'[e].payload.data = agentOutput(outcome)]_vars

\* the listener the AgentManager's constructor registered is still subscribed
RegistrySubscribed ==
  \E k \in 1..Len(listeners["project.realign"]) :
     listeners["project.realign"][k].kind = "realign"

Range(seq) == {seq[i] : i \in 1..Len(seq)}

\* C24: a purpose.selected event for a registered purpose, published while the
\* registry is empty, leaves in the role index exactly one agent, idle, for
\* every role of the purpose and none for any other role, and publishes one
\* agent.created event per role of the purpose.
C24_OneAgentPerRole ==
  [][\A purposeId \in DOMAIN registeredPurposes :
       (Select(purposeId) /\ agents = <<>>) =>
          LET required == Range(registeredPurposes[purposeId])
              after == [agents |-> agents', byRole |-> agentsByRole']
          IN /\ \A role \in AllRoles :
                  Len(getAgentsByRole(after, role)) =
                     IF role \in required THEN 1 ELSE 0
             /\ \A i \in 1..Len(agents') : agents'[i].status = "idle"
             /\ emitCount' - emitCount = 1 + Cardinality(required)]_vars

\* no channel of the bus has a listener
NoSubscription == \A ev \in EventType : listeners[ev] = <<>>

\* C25: shutdown leaves the registry with no tracked agent and the bus with
\* no listener on any channel; and a publish on a bus without listeners only
\* appends to the history: it calls no handler, so it raises nothing and
\* changes neither the registry, the store, the engine nor the subscriptions.
C25_ShutdownSilencesBus ==
  [][/\ Shutdown => /\ agents' = <<>>
                    /\ agentsByRole' = EmptyFn
                    /\ \A ev \in EventType : listeners'[ev] = <<>>
     /\ (NoSubscription /\ (Publish \/ PublishComplete \/ SelectRegistered)) =>
          /\ emitCount' = emitCount + 1
          /\ invocations' = invocations
          /\ ~thrown'
          /\ UNCHANGED <<listeners, subscribers, agents, agentsByRole, minted,
                         executions, projects, currentProjectId, disk,
                         currentPhase, isRunning, pending>>]_vars

\* After a client subscribed and a purpose's team was built, shutdown was
\* called and then a purpose selection was published: no listener, no agent,
\* and the selection is the last entry of the history.
C25_Witness ==
  /\ NoSubscription
  /\ subscribers # <<>>
  /\ minted > 0
  /\ agents = <<>>
  /\ eventHistory # <<>>
  /\ eventHistory[Len(eventHistory)].event = "purpose.selected"
  /\ eventHistory[Len(eventHistory)].seq = emitCount

\* the worker instances constructed so far whose class listens to the
\* start-event of a phase
WorkersOf(phaseName) ==
  Len(SelectSeq(listeners[PhaseStart[phaseName]], LAMBDA l : l.kind = "worker"))

\* the executions of a phase's workers that are under way in a list of tasks
RunningOf(tasks, phaseName) ==
  Len(SelectSeq(tasks, LAMBDA t : t.phase = phaseName /\ t.state = "running"))

\* the step publishes the start-event of a phase from the engine
EnginePublishesStart(phaseName) ==
  \E k \in 1..(emitCount' - emitCount) :
     /\ StepEmits(k, PhaseStart[phaseName])
     /\ Get(StepPayload(k), "source") = "AutoFlow"

\* C26: when the engine publishes the start-event of a phase for which a
\* worker has been constructed, exactly one execution of the phase's work
\* begins (each execution ends in one complete-event of the phase), however
\* many purpose selections and pivots came before.
C26_OneCompletePerStart ==
  [][\A phaseName \in PhaseNames :
       (EnginePublishesStart(phaseName) /\ WorkersOf(phaseName) >= 1) =>
          RunningOf(pending', phaseName) - RunningOf(pending, phaseName) = 1]_vars

\* the step begins with an event that is not the engine's own start-event of
\* a startWorkflow call: an event published to the engine
EventArrives ==
  /\ emitCount' > emitCount
  /\ ~(/\ \E ev \in StartEvents : StepEmits(1, ev)
       /\ Get(StepPayload(1), "source") = "AutoFlow")

\* C27: once a project's status is completed, no event changes it, puts one of
\* the project's phases to in_progress, or, for the current project, makes the
\* engine publish a start-event.
C27_CompletedIsTerminal ==
  [][\A id \in DOMAIN projects :
       (projects[id].status = "completed" /\ EventArrives) =>
          /\ id \in DOMAIN projects'
          /\ projects'[id].status = "completed"
          /\ \A ph \in DOMAIN projects'[id].phases :
               projects'[id].phases[ph].status = "in_progress" =>
                  /\ ph \in DOMAIN projects[id].phases
                  /\ projects[id].phases[ph].status = "in_progress"
          /\ id = currentProjectId =>
               \A phaseName \in PhaseNames : ~EnginePublishesStart(phaseName)]_vars

\* C28: the calls of client handlers a publish step makes are grouped by
\* event in publication order: every handler of the published event is called
\* before any handler is called for an event published from inside a handler.
C28_NestedPublishIsQueued ==
  [][\A i, j \in 1..Len(NewCalls) :
       i < j => NewCalls[i].seq <= NewCalls[j].seq]_vars

\* C29: a store call whose file operation fails raises nothing and leaves
\* every file as it was; an updatePhase whose write fails leaves in memory what
\* the same call leaves when its write succeeds; and a later call that changes
\* the project and whose write succeeds brings the file back to the text of
\* the context in memory.
C29_FailedWriteDiverges ==
  [][/\ io' = "fail" => (disk' = disk /\ ~thrown')
     /\ \A id \in ProjectIds, name \in UpsertNames, partial \in PhasePartials :
          (Upsert(id, name, partial) /\ id \in DOMAIN projects /\ io' = "fail") =>
             projects' = updatePhase(WorldIO("ok"), id, name, partial).projs
     /\ \A id \in ProjectIds :
          (io = "fail" /\ io' = "ok" /\ Mutated(id)) =>
             disk'[id] = stringify(projects'[id])]_vars

\* An updatePhase on the first project has just failed to write: the record
\* is in memory, and the file still holds the text written at creation.
C29_Witness ==
  /\ io = "fail"
  /\ ~thrown
  /\ 1 \in DOMAIN projects
  /\ 1 \in DOMAIN disk
  /\ DOMAIN projects[1].phases # {}
  /\ DOMAIN parse(disk[1]).phases = {}
  /\ disk[1] # stringify(projects[1])

\* the ids of the tracked agents of a role, in creation order
TrackedOfRole(role) ==
  LET instances == SelectSeq(agents, LAMBDA a : a.role = role)
  IN [i \in 1..Len(instances) |-> instances[i].id]

\* C30: in every state reached by createAgent, executeAgent, removeAgent and
\* clearAgents, getAgentsByRole(r) is, for every role r, the list of the
\* tracked agents of role r, each once and in creation order; in particular
\* the role index is empty whenever the id map is.
C30_RoleIndexAgrees ==
  /\ \A role \in AllRoles : getAgentsByRole(World, role) = TrackedOfRole(role)
  /\ \A i, j \in 1..Len(agents) : i < j => agents[i].id < agents[j].id
  /\ agents = <<>> => \A role \in AllRoles : getAgentsByRole(World, role) = <<>>

\* Of three agents of one role the second was removed: the role's list holds
\* the first and the third.
C30_Witness ==
  /\ minted = 3
  /\ Len(agents) = 2
  /\ agents[1].id = 1 /\ agents[2].id = 3
  /\ agents[1].role = agents[2].role
  /\ getAgentsByRole(World, agents[1].role) = <<1, 3>>


\* C31: when the listener of a worker that began its work for project P
\* publishes the phase's complete-event and P is in memory, P's record of the
\* phase becomes completed, the successor phase of P becomes in_progress, and
\* the phase records and the status of every other project stay as they were
\* -- whichever project is current by then.
C31_CompletionGoesToStartedProject ==
  [][(/\ ListenerResumes
      /\ pending[1].project # NoProject
      /\ pending[1].project \in DOMAIN projects) =>
        LET P == pending[1].project
            ph == pending[1].phase
        IN /\ ph \in DOMAIN projects'[P].phases
           /\ projects'[P].phases[ph].status = "completed"
           /\ ph \in NonFinalPhases =>
                /\ Successor(ph) \in DOMAIN projects'[P].phases
                /\ projects'[P].phases[Successor(ph)].status = "in_progress"
           /\ \A Q \in DOMAIN projects \ {P} :
                /\ projects'[Q].phases = projects[Q].phases
                /\ projects'[Q].status = projects[Q].status]_vars


\* C32: whenever the system is initialized, after the first initialize or
\* after a shutdown and a new initialize, a published complete-event of a
\* non-final phase marks the phase completed on the current project and makes
\* the engine publish the successor's start-event, and a published re-align
\* signal leaves the registry without agents.
C32_RestartedCoreReacts ==
  [][initialized =>
       /\ \A p \in NonFinalPhases :
            (PublishComplete /\ HasCurrent /\ StepEmits(1, PhaseComplete[p])) =>
               /\ p \in DOMAIN CurrentAfter.phases
               /\ CurrentAfter.phases[p].status = "completed"
               /\ StepEmits(2, PhaseStart[Successor(p)])
       /\ Realign => agents' = <<>>]_vars


\* C33: a step in which the engine publishes a phase start-event is taken
\* with a current project in the store, and leaves one there.
C33_NoStartWithoutProject ==
  [][\A phaseName \in PhaseNames :
       EnginePublishesStart(phaseName) =>
          /\ HasCurrent
          /\ currentProjectId' # NoProject
          /\ currentProjectId' \in DOMAIN projects']_vars


\* C34: a startWorkflow call that raises publishes no event, leaves the
\* projects in memory and their files as they were, and leaves isRunning and
\* currentPhase as they were.
C34_FailedStartChangesNothing ==
  [][(StartWorkflow /\ thrown') =>
        /\ emitCount' = emitCount
        /\ eventHistory' = eventHistory
        /\ projects' = projects
        /\ disk' = disk
        /\ currentProjectId' = currentProjectId
        /\ currentPhase' = currentPhase
        /\ isRunning' = isRunning]_vars


\* C35: whenever isRunning is true there is a current project, currentPhase
\* names a phase that is in_progress in it and the project's status is the
\* one mapped from that phase; whenever isRunning is false no phase of the
\* current project is in_progress.
C35_EngineAgreesWithStore ==
  /\ isRunning =>
       /\ HasCurrent
       /\ currentPhase \in DOMAIN Current.phases
       /\ Current.phases[currentPhase].status = "in_progress"
       /\ Current.status = statusMap(currentPhase)
  /\ (~isRunning /\ HasCurrent) => InProgress(Current) = {}


\* the phase record carries a value in the field
Carries(record, field) == Get(record, field) # Undef

\* C36: in every project, a phase record with status in_progress has a
\* startedAt and no completedAt, result or artifacts, and a phase record with
\* status completed has a startedAt and a completedAt.
C36_PhaseRecordsCoherent ==
  \A id \in DOMAIN projects :
    \A n \in DOMAIN projects[id].phases :
      LET record == projects[id].phases[n]
      IN /\ record.status = "in_progress" =>
              /\ "startedAt" \in DOMAIN record
              /\ "completedAt" \notin DOMAIN record
              /\ ~Carries(record, "result")
              /\ ~Carries(record, "artifacts")
         /\ record.status = "completed" =>
              /\ "startedAt" \in DOMAIN record
              /\ "completedAt" \in DOMAIN record


\* C37: a tracked agent's status is 'working' exactly when at least one
\* executeAgent call on it is awaiting agent.execute.
C37_WorkingWhileInFlight ==
  \A i \in 1..Len(agents) :
    (agents[i].status = "working") <=>
       (\E k \in 1..Len(executions) : executions[k].agentId = agents[i].id)


\* C38: the current-project pointer is always unset or the id of a project in
\* memory; createProject leaves the new project in memory and current; and
\* setCurrentProject with an id that is not in memory leaves the pointer as
\* it was.
C38_PointerNeverDangling ==
  /\ [](currentProjectId = NoProject \/ currentProjectId \in DOMAIN projects)
  /\ [][/\ CreateProject =>
             /\ currentProjectId' = created + 1
             /\ currentProjectId' \in DOMAIN projects'
             /\ currentProjectId' \notin DOMAIN projects
        /\ \A id \in ProjectIds \ DOMAIN projects :
             SetCurrent(id) => currentProjectId' = currentProjectId]_vars

\* the current project was deleted while another one stays in memory: the
\* pointer is unset
C38_Witness ==
  /\ created = MaxProjects
  /\ currentProjectId = NoProject
  /\ DOMAIN projects # {}
  /\ DOMAIN projects # ProjectIds


\* a call of one of the store's mutating operations with projectId
MutatingCall(id) ==
  \/ SetStatus(id)
  \/ \E phaseName \in UpsertNames, phaseData \in PhasePartials :
        Upsert(id, phaseName, phaseData)
  \/ Store(id)
  \/ Say(id)
  \/ SetMetadata(id)

\* C39: updateProjectStatus, updatePhase, storeArtifact, addConversation and
\* updateMetadata called with an id that is not in memory leave the projects
\* in memory, the files and the current-project pointer as they were.
C39_UnknownIdIsNoOp ==
  [][\A id \in ProjectIds \ DOMAIN projects :
       MutatingCall(id) =>
          /\ projects' = projects
          /\ disk' = disk
          /\ currentProjectId' = currentProjectId]_vars

\* after the last call allowed, one project is in memory, current and saved
\* exactly as createProject left it, while the other id, which the calls also
\* took, was never created
C39_Witness ==
  /\ calls = MaxCalls
  /\ created = 1
  /\ DOMAIN projects = {1}
  /\ DOMAIN disk = {1}
  /\ currentProjectId = 1
  /\ projects[1].status = "initializing"
  /\ projects[1].updatedAt = 1
  /\ projects[1].phases = EmptyFn
  /\ projects[1].conversationHistory = <<>>


\* the calls the step makes of handlers that read the store, for a start-event
\* published by the engine
StartObservations ==
  {j \in 1..Len(NewCalls) :
     /\ "current" \in DOMAIN NewCalls[j]
     /\ NewCalls[j].event \in StartEvents
     /\ Get(NewCalls[j].payload, "source") = "AutoFlow"}

TypeOK ==
  /\ Len(eventHistory) <= maxHistorySize
  /\ currentProjectId \in 0..MaxProjects

====
